---- MODULE Spec2Model ----
(***************************************************************************)
(* BaseExecutor.run of libs/integrations (base-executor.ts): the pipeline  *)
(* findPrompt -> getDeployedPromptVersion -> interpolate -> execute ->     *)
(* reportPromptExecution, with its error paths.                            *)
(*                                                                         *)
(* A run is an async function: it executes synchronously up to an await,   *)
(* then resumes when the awaited promise settles.  One action models one   *)
(* such segment.  A collaborator call can throw synchronously ("threw"),   *)
(* or return a promise ("pending") that later is "fulfilled" or            *)
(* "rejected".                                                             *)
(***************************************************************************)
EXTENDS Integers, Sequences, FiniteSets, TLC

VARIABLES
  callers,   \* the run() invocations the client program makes
  pc,        \* per run: idle, the collaborator call awaited, or settled
  frame,     \* per run: the local bindings of run() made so far
  calls,     \* per run: the collaborator calls made, in order, with returns
  outcome,   \* per run: the state of the promise run() returned
  now        \* performance.now(), in half milliseconds

vars == <<callers, pc, frame, calls, outcome, now>>

(***************************************************************************)
(* Bounds                                                                  *)
(***************************************************************************)
MaxTokens == 1
MaxCost == 1
MaxClock == 1

Runs == {"r1", "r2"}
PromptNames == {"greeting", "farewell"}
VariableSets == {<<>>, [name |-> "Ada"], [name |-> "{title}", title |-> "Dr"]}
OptionSets == {<<>>, [autoParseJSON |-> TRUE]}
Messages == {"network down"}
ReportValues == {"Hi Ada", "parsed"}

EmptyRecord == [k \in {} |-> k]

(***************************************************************************)
(* Values of the collaborators                                             *)
(***************************************************************************)
\* An error object raised by a collaborator; site (run, call index) stands
\* for the object's identity.
ThrownError(site, m) == [name |-> "Error", message |-> m, site |-> site]

Prompts == {[id |-> "p1"], [id |-> "p2"]}

\* A template is a sequence of pieces; a piece that is a key of Placeholders
\* is a placeholder.
Placeholders == [p \in {"{name}", "{title}"} |->
                  IF p = "{name}" THEN "name" ELSE "title"]

PromptVersions ==
  { [sha |-> "sha-a",
     content |-> <<"Hello, ", "{name}", "!">>,
     settings |-> [model |-> "gpt-3.5-turbo",
                   modelSettings |-> [temperature |-> 0],
                   provider |-> "OpenAI"]],
    [sha |-> "sha-b",
     content |-> <<"Bye">>,
     settings |-> [model |-> "gpt-4",
                   modelSettings |-> [temperature |-> 1],
                   provider |-> "OpenAI"]] }

BackendErrors ==
  { [error |-> [name |-> "Error", message |-> "429 Too Many Requests"],
     printableError |-> "rate limited", status |-> 429],
    [error |-> [name |-> "Error", message |-> "500 Internal"],
     printableError |-> "server error", status |-> 500] }

Results == {"Hi Ada"}

\* ExecuteResult<string>: error and result are optional fields.
ExecuteResults ==
  { base @@ e @@ res :
      base \in [status : {"Success", "Error"},
                promptTokens : 0..MaxTokens,
                completionTokens : 0..MaxTokens,
                promptCost : 0..MaxCost,
                completionCost : 0..MaxCost],
      e \in {EmptyRecord} \cup {[error |-> x] : x \in BackendErrors},
      res \in {EmptyRecord} \cup {[result |-> y] : y \in Results} }

\* How a call returns at the call: it throws, or it returns a promise.
SyncRets(site) ==
  {[kind |-> "pending"]}
    \cup {[kind |-> "threw", error |-> ThrownError(site, m)] : m \in Messages}

\* How a returned promise settles.
AsyncRets(site, values) ==
  {[kind |-> "fulfilled", value |-> v] : v \in values}
    \cup {[kind |-> "rejected", error |-> ThrownError(site, m)] : m \in Messages}

(***************************************************************************)
(* Pure parts of the code                                                  *)
(***************************************************************************)
PezzoClientError(message, error) ==
  [name |-> "PezzoClientError", message |-> message, error |-> error]

PezzoClientErrorWithStatus(message, error, statusCode) ==
  [name |-> "PezzoClientError", message |-> message, error |-> error,
   statusCode |-> statusCode]

ExecutionFailedMessage ==
  "Prompt execution failed. Check the Pezzo History to see what went wrong."

interpolateVariables(content, variables) ==
  [i \in DOMAIN content |->
     IF content[i] \in DOMAIN Placeholders
          /\ Placeholders[content[i]] \in DOMAIN variables
       THEN variables[Placeholders[content[i]]]
       ELSE content[i]]

\* Math.ceil of a span given in half milliseconds.
Ceil(halfMs) == (halfMs + 1) \div 2

\* A collaborator call as recorded in calls.
CallEntry(fn, args, ret) == [fn |-> fn, args |-> args, ret |-> ret]

\* getPrompt with a retry of findPrompt in the catch block.
getPromptRetrying(promptName, ret) ==
  [calls |-> IF ret.kind = "threw"
               THEN <<CallEntry("findPrompt", <<promptName>>, ret),
                      CallEntry("findPrompt", <<promptName>>, ret)>>
               ELSE <<CallEntry("findPrompt", <<promptName>>, ret)>>,
   ret |-> IF ret.kind = "threw"
             THEN [kind |-> "threw",
                   error |-> PezzoClientError(ret.error.message, ret.error)]
             ELSE ret]

\* getPrompt: makes the findPrompt call; a synchronous throw is wrapped in
\* a PezzoClientError, the promise is returned as it is (not awaited inside
\* the try).  ret is how findPrompt returns.
getPrompt(promptName, ret) ==
  [calls |-> <<CallEntry("findPrompt", <<promptName>>, ret)>>,
   ret |-> IF ret.kind = "threw"
             THEN [kind |-> "threw",
                   error |-> PezzoClientError(ret.error.message, ret.error)]
             ELSE ret]

\* getPromptVersion with a report of the failure in the catch block.
getPromptVersionReporting(promptId, ret) ==
  [calls |-> IF ret.kind = "threw"
               THEN <<CallEntry("getDeployedPromptVersion", <<promptId>>, ret),
                      CallEntry("reportPromptExecution",
                                <<[status |-> "Error",
                                   error |-> ret.error.message]>>,
                                [kind |-> "pending"])>>
               ELSE <<CallEntry("getDeployedPromptVersion", <<promptId>>,
                                ret)>>,
   ret |-> IF ret.kind = "threw"
             THEN [kind |-> "threw",
                   error |-> PezzoClientError(ret.error.message, ret.error)]
             ELSE ret]

getPromptVersion(promptId, ret) ==
  [calls |-> <<CallEntry("getDeployedPromptVersion", <<promptId>>, ret)>>,
   ret |-> IF ret.kind = "threw"
             THEN [kind |-> "threw",
                   error |-> PezzoClientError(ret.error.message, ret.error)]
             ELSE ret]

\* A failure of execute wrapped like the failures of the lookups.
UncaughtWrapped(e) == PezzoClientError(e.message, e)

\* await this.execute(...) stands in no try block: run() rejects with the
\* very error that execute threw or rejected with.
Uncaught(e) == e

\* The request with the settings of the version passed whole.
ExecutePropsAllSettings(fr) ==
  [content |-> fr.interpolatedContent,
   settings |-> fr.settings,
   options |-> fr.options]

\* The request built from an interpolated content kept in a field of the
\* executor, which the run "r1" overwrites.
ExecutePropsShared(fr) ==
  [content |-> IF "interpolatedContent" \in DOMAIN frame["r1"]
                 THEN frame["r1"].interpolatedContent
                 ELSE fr.interpolatedContent,
   settings |-> [model |-> fr.settings.model,
                 modelSettings |-> fr.settings.modelSettings],
   options |-> fr.options]

\* The request handed to execute.
ExecuteProps(fr) ==
  [content |-> fr.interpolatedContent,
   settings |-> [model |-> fr.settings.model,
                 modelSettings |-> fr.settings.modelSettings],
   options |-> fr.options]

\* The classification requiring the declared status "Error" as well.
ExecutionFailedByStatus(executionResult) ==
  executionResult.status = "Error" /\ "error" \in DOMAIN executionResult

\* if (executionResult.error)
ExecutionFailed(executionResult) == "error" \in DOMAIN executionResult

\* The error thrown without the status code.
ExecutionErrorNoStatus(executionResult) ==
  PezzoClientError(ExecutionFailedMessage, executionResult.error.error)

\* The error thrown for a result that carries an error.
ExecutionError(executionResult) ==
  PezzoClientErrorWithStatus(ExecutionFailedMessage,
                             executionResult.error.error,
                             executionResult.error.status)

\* ...(executionResult.error && { error: executionResult.error.printableError })
ErrorSpread(executionResult) ==
  IF "error" \in DOMAIN executionResult
    THEN [error |-> executionResult.error.printableError]
    ELSE EmptyRecord

\* result: executionResult.result (an undefined value is an absent field)
ResultField(executionResult) ==
  IF "result" \in DOMAIN executionResult
    THEN [result |-> executionResult.result]
    ELSE EmptyRecord

\* The first report with the version taken from a cache by prompt name that
\* the run "r1" filled.
FirstReportCached(fr) ==
  LET version == IF /\ "promptVersion" \in DOMAIN frame["r1"]
                    /\ frame["r1"].promptName = fr.promptName
                   THEN frame["r1"].promptVersion
                   ELSE fr.promptVersion
  IN
  [prompt |-> fr.promptConnect,
   promptVersionSha |-> version.sha,
   status |-> fr.executionResult.status,
   content |-> version.content,
   variables |-> fr.variables,
   interpolatedContent |-> fr.interpolatedContent,
   settings |-> version.settings,
   promptTokens |-> fr.executionResult.promptTokens,
   completionTokens |-> fr.executionResult.completionTokens,
   totalTokens |->
     fr.executionResult.promptTokens + fr.executionResult.completionTokens,
   promptCost |-> fr.executionResult.promptCost,
   completionCost |-> fr.executionResult.completionCost,
   totalCost |->
     fr.executionResult.promptCost + fr.executionResult.completionCost,
   duration |-> fr.duration]
    @@ ResultField(fr.executionResult) @@ ErrorSpread(fr.executionResult)

\* The report of the first submission.
FirstReport(fr) ==
  [prompt |-> fr.promptConnect,
   promptVersionSha |-> fr.promptVersion.sha,
   status |-> fr.executionResult.status,
   content |-> fr.content,
   variables |-> fr.variables,
   interpolatedContent |-> fr.interpolatedContent,
   settings |-> fr.settings,
   promptTokens |-> fr.executionResult.promptTokens,
   completionTokens |-> fr.executionResult.completionTokens,
   totalTokens |->
     fr.executionResult.promptTokens + fr.executionResult.completionTokens,
   promptCost |-> fr.executionResult.promptCost,
   completionCost |-> fr.executionResult.completionCost,
   totalCost |->
     fr.executionResult.promptCost + fr.executionResult.completionCost,
   duration |-> fr.duration]
    @@ ResultField(fr.executionResult) @@ ErrorSpread(fr.executionResult)

\* The fallback report with the settings cut down to those of the request.
FallbackReportReduced(fr) ==
  [prompt |-> fr.promptConnect,
   promptVersionSha |-> fr.promptVersion.sha,
   status |-> "Error",
   content |-> fr.content,
   variables |-> fr.variables,
   interpolatedContent |-> fr.interpolatedContent,
   settings |-> [model |-> fr.settings.model,
                 modelSettings |-> fr.settings.modelSettings],
   promptTokens |-> fr.executionResult.promptTokens,
   completionTokens |-> fr.executionResult.completionTokens,
   totalTokens |->
     fr.executionResult.promptTokens + fr.executionResult.completionTokens,
   promptCost |-> fr.executionResult.promptCost,
   completionCost |-> fr.executionResult.completionCost,
   totalCost |->
     fr.executionResult.promptCost + fr.executionResult.completionCost,
   duration |-> fr.duration]
    @@ ErrorSpread(fr.executionResult)

\* The fallback report with the totals taken from the prompt side only.
FallbackReportPromptOnly(fr) ==
  [prompt |-> fr.promptConnect,
   promptVersionSha |-> fr.promptVersion.sha,
   status |-> "Error",
   content |-> fr.content,
   variables |-> fr.variables,
   interpolatedContent |-> fr.interpolatedContent,
   settings |-> fr.settings,
   promptTokens |-> fr.executionResult.promptTokens,
   completionTokens |-> fr.executionResult.completionTokens,
   totalTokens |-> fr.executionResult.promptTokens,
   promptCost |-> fr.executionResult.promptCost,
   completionCost |-> fr.executionResult.completionCost,
   totalCost |-> fr.executionResult.promptCost,
   duration |-> fr.duration]
    @@ ErrorSpread(fr.executionResult)

\* The report of the submission made in the catch block.
FallbackReport(fr) ==
  [prompt |-> fr.promptConnect,
   promptVersionSha |-> fr.promptVersion.sha,
   status |-> "Error",
   content |-> fr.content,
   variables |-> fr.variables,
   interpolatedContent |-> fr.interpolatedContent,
   settings |-> fr.settings,
   promptTokens |-> fr.executionResult.promptTokens,
   completionTokens |-> fr.executionResult.completionTokens,
   totalTokens |->
     fr.executionResult.promptTokens + fr.executionResult.completionTokens,
   promptCost |-> fr.executionResult.promptCost,
   completionCost |-> fr.executionResult.completionCost,
   totalCost |->
     fr.executionResult.promptCost + fr.executionResult.completionCost,
   duration |-> fr.duration]
    @@ ErrorSpread(fr.executionResult)

\* options.autoParseJSON as an argument: absent when undefined.
AutoParseJSONArg(options) ==
  IF "autoParseJSON" \in DOMAIN options
    THEN <<options.autoParseJSON>>
    ELSE <<>>

\* run() left pending when the report promise settles.
AdoptedNever(fr, ret) == [kind |-> "pending"]

\* run() resolving to the backend's result instead of the report's value.
AdoptedBackendResult(fr, ret) ==
  IF ret.kind = "fulfilled"
    THEN IF "result" \in DOMAIN fr.executionResult
           THEN [kind |-> "fulfilled", value |-> fr.executionResult.result]
           ELSE [kind |-> "fulfilled", value |-> ret.value]
    ELSE [kind |-> "rejected", error |-> ret.error]

\* return <promise>: the promise of run() takes the state of the promise
\* that reportPromptExecution returned.
Adopted(fr, ret) ==
  IF ret.kind = "fulfilled"
    THEN [kind |-> "fulfilled", value |-> ret.value]
    ELSE [kind |-> "rejected", error |-> ret.error]

(***************************************************************************)
(* State after construction                                                *)
(***************************************************************************)
Init ==
  /\ callers = {"r1"}
  /\ pc = [r \in Runs |-> "idle"]
  /\ frame = [r \in Runs |-> EmptyRecord]
  /\ calls = [r \in Runs |-> <<>>]
  /\ outcome = [r \in Runs |-> [kind |-> "pending"]]
  /\ now = 0

\* run()'s promise rejects with e / run() suspends at an await of fn.
Rejects(r, e) ==
  /\ pc' = [pc EXCEPT ![r] = "settled"]
  /\ outcome' = [outcome EXCEPT ![r] = [kind |-> "rejected", error |-> e]]

Awaits(r, fn) ==
  /\ pc' = [pc EXCEPT ![r] = fn]
  /\ UNCHANGED outcome

\* calls[r] with the return of its latest call replaced by ret.
Settled(r, ret) == [calls[r] EXCEPT ![Len(calls[r])].ret = ret]

\* The identity of an error raised by the k-th next call of run r.
Site(r, k) == <<r, Len(calls[r]) + k>>

\* The arguments of run().
RunInputs ==
  [promptName : PromptNames, variables : VariableSets, options : OptionSets]

\* run(promptName, variables, options) up to the first await, the arguments
\* drawn from inputs.
CallWith(r, inputs) ==
  /\ r \in callers
  /\ pc[r] = "idle"
  /\ \E input \in inputs, ret \in SyncRets(Site(r, 1)) :
       LET promptName == input.promptName
           variables == input.variables
           options == input.options
           got == getPrompt(promptName, ret)
       IN
       /\ frame' = [frame EXCEPT ![r] =
                      [promptName |-> promptName, variables |-> variables,
                       options |-> options]]
       /\ calls' = [calls EXCEPT ![r] = got.calls]
       /\ IF got.ret.kind = "threw"
            THEN Rejects(r, got.ret.error)
            ELSE Awaits(r, "findPrompt")
  /\ UNCHANGED <<callers, now>>

Call(r) == CallWith(r, RunInputs)

\* The promise of findPrompt settles: const prompt = await ...; then the
\* code up to the await of getPromptVersion.
FindPromptSettles(r) ==
  /\ pc[r] = "findPrompt"
  /\ \E ret \in AsyncRets(Site(r, 0), Prompts), ret2 \in SyncRets(Site(r, 1)) :
       IF ret.kind = "rejected"
         THEN /\ Rejects(r, ret.error)
              /\ calls' = [calls EXCEPT ![r] = Settled(r, ret)]
              /\ UNCHANGED frame
         ELSE LET prompt == ret.value
                  got == getPromptVersion(prompt.id, ret2)
              IN /\ frame' = [frame EXCEPT ![r] = [prompt |-> prompt] @@ @]
                 /\ calls' = [calls EXCEPT ![r] = Settled(r, ret) \o got.calls]
                 /\ IF got.ret.kind = "threw"
                      THEN Rejects(r, got.ret.error)
                      ELSE Awaits(r, "getDeployedPromptVersion")
  /\ UNCHANGED <<callers, now>>

\* The promise of getDeployedPromptVersion settles; interpolation, start of
\* the timing and the call of execute.
GetDeployedPromptVersionSettles(r) ==
  /\ pc[r] = "getDeployedPromptVersion"
  /\ \E ret \in AsyncRets(Site(r, 0), PromptVersions),
        ret2 \in SyncRets(Site(r, 1)) :
       IF ret.kind = "rejected"
         THEN /\ Rejects(r, ret.error)
              /\ calls' = [calls EXCEPT ![r] = Settled(r, ret)]
              /\ UNCHANGED frame
         ELSE LET promptVersion == ret.value
                  fr == [promptVersion |-> promptVersion,
                         settings |-> promptVersion.settings,
                         content |-> promptVersion.content,
                         interpolatedContent |->
                           interpolateVariables(promptVersion.content,
                                                frame[r].variables),
                         start |-> now] @@ frame[r]
              IN /\ frame' = [frame EXCEPT ![r] = fr]
                 /\ calls' = [calls EXCEPT ![r] =
                                Settled(r, ret) \o
                                  <<CallEntry("execute", <<ExecuteProps(fr)>>,
                                              ret2)>>]
                 /\ IF ret2.kind = "threw"
                      THEN Rejects(r, Uncaught(ret2.error))
                      ELSE Awaits(r, "execute")
  /\ UNCHANGED <<callers, now>>

\* The promise of execute settles; classification, end of the timing and
\* the report submission with its catch block.
ExecuteSettlesWith(r, results) ==
  /\ pc[r] = "execute"
  /\ \E ret \in AsyncRets(Site(r, 0), results) :
       IF ret.kind = "rejected"
         THEN /\ Rejects(r, Uncaught(ret.error))
              /\ calls' = [calls EXCEPT ![r] = Settled(r, ret)]
              /\ UNCHANGED frame
         ELSE
           LET executionResult == ret.value IN
           IF ExecutionFailed(executionResult)
             THEN /\ Rejects(r, ExecutionError(executionResult))
                  /\ calls' = [calls EXCEPT ![r] = Settled(r, ret)]
                  /\ frame' = [frame EXCEPT ![r] =
                                 [executionResult |-> executionResult] @@ @]
             ELSE
               LET fr == [executionResult |-> executionResult,
                          end |-> now,
                          duration |-> Ceil(now - frame[r].start),
                          promptConnect |->
                            [connect |-> [id |-> frame[r].prompt.id]]]
                           @@ frame[r]
               IN
               \E ret1 \in SyncRets(Site(r, 1)) :
                 LET first ==
                       CallEntry("reportPromptExecution",
                                 <<FirstReport(fr)>>
                                   \o AutoParseJSONArg(fr.options),
                                 ret1)
                 IN
                 /\ frame' = [frame EXCEPT ![r] = fr]
                 /\ IF ret1.kind = "threw"
                      THEN \E ret2 \in SyncRets(Site(r, 2)) :
                             /\ calls' = [calls EXCEPT ![r] =
                                  Settled(r, ret) \o
                                    <<first,
                                      CallEntry("reportPromptExecution",
                                                <<FallbackReport(fr)>>,
                                                ret2)>>]
                             /\ IF ret2.kind = "threw"
                                  THEN Rejects(r, ret2.error)
                                  ELSE Rejects(r, ret1.error)
                      ELSE /\ calls' = [calls EXCEPT ![r] =
                                          Settled(r, ret) \o <<first>>]
                           /\ Awaits(r, "reportPromptExecution")
  /\ UNCHANGED <<callers, now>>

ExecuteSettles(r) == ExecuteSettlesWith(r, ExecuteResults)

\* The promise that the first reportPromptExecution returned, and that run
\* returned, settles.
ReportSettles(r) ==
  /\ pc[r] = "reportPromptExecution"
  /\ \E ret \in AsyncRets(Site(r, 0), ReportValues) :
       /\ calls' = [calls EXCEPT ![r] = Settled(r, ret)]
       /\ pc' = [pc EXCEPT ![r] = "settled"]
       /\ outcome' = [outcome EXCEPT ![r] = Adopted(frame[r], ret)]
  /\ UNCHANGED <<callers, frame, now>>

\* The promise of the submission made in the catch block settles; nothing
\* awaits it.
FallbackReportSettles(r) ==
  /\ pc[r] = "settled"
  /\ calls[r] # <<>>
  /\ calls[r][Len(calls[r])].fn = "reportPromptExecution"
  /\ calls[r][Len(calls[r])].ret.kind = "pending"
  /\ \E ret \in AsyncRets(Site(r, 0), ReportValues) :
       calls' = [calls EXCEPT ![r] = Settled(r, ret)]
  /\ UNCHANGED <<callers, pc, frame, outcome, now>>

\* Time passes.  The clock is read only right before the call of execute
\* and right after its return: what is observable is the time at which a
\* run starts and the time that passes while an execute call is in flight.
Tick ==
  /\ now < MaxClock
  /\ \E r \in callers : pc[r] \in {"idle", "execute"}
  /\ now' = now + 1
  /\ UNCHANGED <<callers, pc, frame, calls, outcome>>

Next ==
  \/ \E r \in Runs : Call(r)
  \/ \E r \in Runs : FindPromptSettles(r)
  \/ \E r \in Runs : GetDeployedPromptVersionSettles(r)
  \/ \E r \in Runs : ExecuteSettles(r)
  \/ \E r \in Runs : ReportSettles(r)
  \/ \E r \in Runs : FallbackReportSettles(r)
  \/ Tick

Spec == Init /\ [][Next]_vars

(***************************************************************************)
(* Two concurrent runs on one executor.  The runs are the same code; their *)
(* arguments and backend results are drawn from smaller sets.              *)
(***************************************************************************)
ConcInputs ==
  { [promptName |-> "greeting", variables |-> [name |-> "Ada"],
     options |-> [autoParseJSON |-> TRUE]],
    [promptName |-> "farewell", variables |-> <<>>, options |-> <<>>] }

ConcResults ==
  { x \in ExecuteResults :
      /\ x.promptTokens = MaxTokens /\ x.completionTokens = 0
      /\ x.promptCost = 0 /\ x.completionCost = MaxCost
      /\ \/ /\ x.status = "Success"
            /\ "result" \in DOMAIN x
            /\ "error" \notin DOMAIN x
         \/ /\ x.status = "Error"
            /\ "result" \notin DOMAIN x
            /\ "error" \in DOMAIN x
            /\ x.error.status = 429 }

InitConc ==
  /\ callers = Runs
  /\ pc = [r \in Runs |-> "idle"]
  /\ frame = [r \in Runs |-> EmptyRecord]
  /\ calls = [r \in Runs |-> <<>>]
  /\ outcome = [r \in Runs |-> [kind |-> "pending"]]
  /\ now = 0

NextConc ==
  \/ \E r \in Runs : CallWith(r, ConcInputs)
  \/ \E r \in Runs : FindPromptSettles(r)
  \/ \E r \in Runs : GetDeployedPromptVersionSettles(r)
  \/ \E r \in Runs : ExecuteSettlesWith(r, ConcResults)
  \/ \E r \in Runs : ReportSettles(r)
  \/ \E r \in Runs : FallbackReportSettles(r)
  \/ Tick

SpecConc == InitConc /\ [][NextConc]_vars

\* Every promise that a collaborator returned settles in the end, and the
\* event loop then resumes the run that awaits it.
CollaboratorsSettle ==
  \A r \in Runs :
    /\ WF_vars(FindPromptSettles(r))
    /\ WF_vars(GetDeployedPromptVersionSettles(r))
    /\ WF_vars(ExecuteSettlesWith(r, ConcResults))
    /\ WF_vars(ReportSettles(r))
    /\ WF_vars(FallbackReportSettles(r))

FairSpecConc == SpecConc /\ CollaboratorsSettle

(***************************************************************************)
(* What a run did, read from its calls                                     *)
(***************************************************************************)
CallsOf(r, fn) == SelectSeq(calls[r], LAMBDA c : c.fn = fn)

ReportCalls(r) == CallsOf(r, "reportPromptExecution")

Failed(c) == c.ret.kind \in {"threw", "rejected"}

RunSettled(r) == outcome[r].kind # "pending"

\* findPrompt or getDeployedPromptVersion failed in run r.
LookupFailed(r) ==
  \E i \in DOMAIN calls[r] :
    /\ calls[r][i].fn \in {"findPrompt", "getDeployedPromptVersion"}
    /\ Failed(calls[r][i])

\* execute returned a result in run r.
ExecuteReturned(r) ==
  \E i \in DOMAIN calls[r] :
    calls[r][i].fn = "execute" /\ calls[r][i].ret.kind = "fulfilled"

\* The result execute returned in run r.
BackendResult(r) == CallsOf(r, "execute")[1].ret.value

\* The error with which the lookup of run r failed.
LookupFailure(r) ==
  LET i == CHOOSE j \in DOMAIN calls[r] :
             /\ calls[r][j].fn \in {"findPrompt", "getDeployedPromptVersion"}
             /\ Failed(calls[r][j])
  IN calls[r][i].ret.error

\* execute returned a result that carries an error field.
ExecuteErrored(r) ==
  ExecuteReturned(r) /\ "error" \in DOMAIN BackendResult(r)

Report(c) == c.args[1]

(***************************************************************************)
(* Claims                                                                  *)
(***************************************************************************)

\* C1: when execute returns a result carrying an error field, exactly one
\* report with status "Error" has been submitted by the time run() rejects.
C1_ErrorResultReportedOnce ==
  \A r \in Runs :
    (ExecuteErrored(r) /\ RunSettled(r)) =>
      /\ Len(ReportCalls(r)) = 1
      /\ Report(ReportCalls(r)[1]).status = "Error"

\* C2: when both lookups, execute (no error, status "Success") and the
\* report submission succeed, run() resolves to the value the report
\* submission resolved to, and exactly one report, with status "Success",
\* was submitted.
AllSucceeded(r) ==
  /\ Len(calls[r]) >= 4
  /\ \A i \in 1..4 : calls[r][i].ret.kind = "fulfilled"
  /\ ~ExecuteErrored(r)
  /\ BackendResult(r).status = "Success"

C2_SuccessReturnsReportValue ==
  \A r \in Runs :
    AllSucceeded(r) =>
      /\ outcome[r] = [kind |-> "fulfilled",
                       value |-> ReportCalls(r)[1].ret.value]
      /\ Len(ReportCalls(r)) = 1
      /\ Report(ReportCalls(r)[1]).status = "Success"

C2_Witness ==
  \E r \in Runs :
    /\ AllSucceeded(r)
    /\ outcome[r] = [kind |-> "fulfilled", value |-> "parsed"]
    /\ "result" \in DOMAIN BackendResult(r)

\* C3: when the first report submission fails, by a throw or by a rejected
\* promise, a second report is submitted, with status "Error" and without
\* a result field.
C3_FailedReportIsRetried ==
  \A r \in Runs :
    (ReportCalls(r) # <<>> /\ Failed(ReportCalls(r)[1])) =>
      /\ Len(ReportCalls(r)) >= 2
      /\ Report(ReportCalls(r)[2]).status = "Error"
      /\ "result" \notin DOMAIN Report(ReportCalls(r)[2])

\* C4: when the first report submission fails and the second fails too,
\* run() rejects with the failure of the second.
C4_SecondFailureSurfaces ==
  \A r \in Runs :
    (/\ Len(ReportCalls(r)) = 2
     /\ Failed(ReportCalls(r)[1])
     /\ Failed(ReportCalls(r)[2])) =>
      outcome[r] = [kind |-> "rejected",
                    error |-> ReportCalls(r)[2].ret.error]

\* C5: when findPrompt or getDeployedPromptVersion fails in any way, run()
\* rejects with a PezzoClientError whose message is the message of the
\* failure and whose cause is the failure.
C5_LookupFailureIsWrapped ==
  \A r \in Runs :
    LookupFailed(r) =>
      outcome[r] = [kind |-> "rejected",
                    error |-> [name |-> "PezzoClientError",
                               message |-> LookupFailure(r).message,
                               error |-> LookupFailure(r)]]

\* C6: when findPrompt or getDeployedPromptVersion fails, the run makes no
\* report submission, never calls execute, and ends at the failed lookup.
C6_LookupFailureEndsRun ==
  \A r \in Runs :
    LookupFailed(r) =>
      /\ ReportCalls(r) = <<>>
      /\ CallsOf(r, "execute") = <<>>
      /\ Failed(calls[r][Len(calls[r])])
      /\ pc[r] = "settled"
      /\ outcome[r].kind = "rejected"

C6_Witness ==
  \E r \in Runs :
    /\ Len(calls[r]) = 2
    /\ calls[r][1].ret.kind = "fulfilled"
    /\ calls[r][2].ret.kind = "threw"
    /\ pc[r] = "settled"

\* C7: when execute returns a result carrying an error field, run() rejects
\* with a PezzoClientError that has the fixed message, the backend's error
\* cause and the backend's status code; it never resolves.
C7_ErrorResultRejects ==
  \A r \in Runs :
    ExecuteErrored(r) =>
      outcome[r] = [kind |-> "rejected",
                    error |-> [name |-> "PezzoClientError",
                               message |-> ExecutionFailedMessage,
                               error |-> BackendResult(r).error.error,
                               statusCode |-> BackendResult(r).error.status]]

C7_Witness ==
  \E r \in Runs :
    /\ ExecuteErrored(r)
    /\ BackendResult(r).error.status = 429
    /\ outcome[r].kind = "rejected"
    /\ outcome[r].error.statusCode = 429

\* C8: a run makes at most two report submissions, the second only after
\* the first has failed, and calls findPrompt, getDeployedPromptVersion and
\* execute at most once each.
C8_AtMostOneRetry ==
  \A r \in Runs :
    /\ Len(ReportCalls(r)) <= 2
    /\ Len(ReportCalls(r)) = 2 => Failed(ReportCalls(r)[1])
    /\ Len(CallsOf(r, "findPrompt")) <= 1
    /\ Len(CallsOf(r, "getDeployedPromptVersion")) <= 1
    /\ Len(CallsOf(r, "execute")) <= 1

C8_Witness ==
  \E r \in Runs :
    /\ Len(ReportCalls(r)) = 2
    /\ Len(CallsOf(r, "findPrompt")) = 1
    /\ Len(CallsOf(r, "getDeployedPromptVersion")) = 1
    /\ Len(CallsOf(r, "execute")) = 1
    /\ RunSettled(r)

\* C9: every submitted report, first or fallback, has totalTokens =
\* promptTokens + completionTokens and totalCost = promptCost +
\* completionCost, the addends being those of the run's backend result.
C9_TotalsAreSums ==
  \A r \in Runs :
    \A i \in DOMAIN ReportCalls(r) :
      LET report == Report(ReportCalls(r)[i]) IN
      /\ report.promptTokens = BackendResult(r).promptTokens
      /\ report.completionTokens = BackendResult(r).completionTokens
      /\ report.promptCost = BackendResult(r).promptCost
      /\ report.completionCost = BackendResult(r).completionCost
      /\ report.totalTokens =
           BackendResult(r).promptTokens + BackendResult(r).completionTokens
      /\ report.totalCost =
           BackendResult(r).promptCost + BackendResult(r).completionCost

C9_Witness ==
  \E r \in Runs :
    /\ Len(ReportCalls(r)) = 2
    /\ BackendResult(r).promptTokens = 1
    /\ BackendResult(r).completionTokens = 1
    /\ BackendResult(r).promptCost = 1
    /\ BackendResult(r).completionCost = 1
    /\ Report(ReportCalls(r)[1]).totalTokens = 2
    /\ Report(ReportCalls(r)[2]).totalCost = 2

\* C10: in a run whose backend result carried an error field, every
\* submitted report has status "Error"; none has status "Success", whatever
\* status the backend result declared.
C10_ErrorResultNeverReportedSuccess ==
  \A r \in Runs :
    ExecuteErrored(r) =>
      \A i \in DOMAIN ReportCalls(r) :
        Report(ReportCalls(r)[i]).status = "Error"

C10_Witness ==
  \E r \in Runs :
    /\ ExecuteErrored(r)
    /\ BackendResult(r).status = "Success"
    /\ RunSettled(r)

\* The names of the calls of run r, in order.
CallOrder(r) == [i \in DOMAIN calls[r] |-> calls[r][i].fn]

Pipeline ==
  <<"findPrompt", "getDeployedPromptVersion", "execute",
    "reportPromptExecution", "reportPromptExecution">>

\* The calls of run r follow the pipeline, each call of the first four made
\* only after the one before it resolved, the version looked up with the id
\* that findPrompt returned.
InPipelineOrder(r) ==
  /\ Len(calls[r]) <= Len(Pipeline)
  /\ CallOrder(r) = SubSeq(Pipeline, 1, Len(calls[r]))
  /\ \A i \in DOMAIN calls[r] :
       (1 < i /\ i <= 4) => calls[r][i - 1].ret.kind = "fulfilled"
  /\ Len(calls[r]) >= 2 => calls[r][2].args = <<calls[r][1].ret.value.id>>

\* C11: the calls of a run are findPrompt, getDeployedPromptVersion (with
\* the id findPrompt returned), execute once, then the report submission,
\* each made after the previous one resolved; and once execute has returned
\* a result, with or without an error field, a report is submitted.
C11_PipelineOrderAndReport ==
  \A r \in Runs :
    /\ InPipelineOrder(r)
    /\ (ExecuteReturned(r) /\ RunSettled(r)) => ReportCalls(r) # <<>>

\* C12: when execute throws or its promise rejects, run() rejects with that
\* same error, not wrapped, and no report is submitted.
ExecuteThrew(r) ==
  \E i \in DOMAIN calls[r] :
    calls[r][i].fn = "execute" /\ Failed(calls[r][i])

C12_ExecuteThrowPropagates ==
  \A r \in Runs :
    ExecuteThrew(r) =>
      /\ outcome[r] = [kind |-> "rejected",
                       error |-> CallsOf(r, "execute")[1].ret.error]
      /\ outcome[r].error.name # "PezzoClientError"
      /\ ReportCalls(r) = <<>>

C12_Witness ==
  \E r \in Runs :
    /\ ExecuteThrew(r)
    /\ CallsOf(r, "execute")[1].ret.kind = "rejected"
    /\ outcome[r].kind = "rejected"

(***************************************************************************)
(* A run taken alone: what it must do, computed from its own arguments and *)
(* from what its own collaborator calls returned.                          *)
(***************************************************************************)
OwnPrompt(r) == calls[r][1].ret.value

OwnVersion(r) == calls[r][2].ret.value

\* The request a run alone hands to execute.
AloneRequest(r) ==
  [content |-> interpolateVariables(OwnVersion(r).content, frame[r].variables),
   settings |-> [model |-> OwnVersion(r).settings.model,
                 modelSettings |-> OwnVersion(r).settings.modelSettings],
   options |-> frame[r].options]

\* A report without its duration, which depends on the clock.
Timeless(report) == [k \in DOMAIN report \ {"duration"} |-> report[k]]

\* The reports of a run alone, without the duration.
AloneReport(r, status, withResult) ==
  [prompt |-> [connect |-> [id |-> OwnPrompt(r).id]],
   promptVersionSha |-> OwnVersion(r).sha,
   status |-> status,
   content |-> OwnVersion(r).content,
   variables |-> frame[r].variables,
   interpolatedContent |->
     interpolateVariables(OwnVersion(r).content, frame[r].variables),
   settings |-> OwnVersion(r).settings,
   promptTokens |-> BackendResult(r).promptTokens,
   completionTokens |-> BackendResult(r).completionTokens,
   totalTokens |->
     BackendResult(r).promptTokens + BackendResult(r).completionTokens,
   promptCost |-> BackendResult(r).promptCost,
   completionCost |-> BackendResult(r).completionCost,
   totalCost |-> BackendResult(r).promptCost + BackendResult(r).completionCost]
    @@ (IF withResult /\ "result" \in DOMAIN BackendResult(r)
          THEN [result |-> BackendResult(r).result]
          ELSE EmptyRecord)

\* The outcome of a run alone, given the returns of its calls.
AloneOutcome(r) ==
  LET c == calls[r]
      wrapped(e) == [kind |-> "rejected",
                     error |-> [name |-> "PezzoClientError",
                                message |-> e.message, error |-> e]]
      raw(e) == [kind |-> "rejected", error |-> e]
      lookup(i) == IF c[i].ret.kind = "threw" THEN wrapped(c[i].ret.error)
                   ELSE IF c[i].ret.kind = "rejected" THEN raw(c[i].ret.error)
                   ELSE [kind |-> "pending"]
  IN
  IF c = <<>> THEN [kind |-> "pending"]
  ELSE IF c[1].ret.kind # "fulfilled" THEN lookup(1)
  ELSE IF c[2].ret.kind # "fulfilled" THEN lookup(2)
  ELSE IF c[3].ret.kind = "pending" THEN [kind |-> "pending"]
  ELSE IF c[3].ret.kind # "fulfilled" THEN raw(c[3].ret.error)
  ELSE IF "error" \in DOMAIN c[3].ret.value
    THEN [kind |-> "rejected",
          error |-> [name |-> "PezzoClientError",
                     message |-> ExecutionFailedMessage,
                     error |-> c[3].ret.value.error.error,
                     statusCode |-> c[3].ret.value.error.status]]
  ELSE IF c[4].ret.kind = "pending" THEN [kind |-> "pending"]
  ELSE IF c[4].ret.kind = "fulfilled"
    THEN [kind |-> "fulfilled", value |-> c[4].ret.value]
  ELSE IF c[4].ret.kind = "rejected" THEN raw(c[4].ret.error)
  ELSE IF c[5].ret.kind = "threw" THEN raw(c[5].ret.error)
  ELSE raw(c[4].ret.error)

\* C13: with two runs interleaved on one executor, the request to execute
\* and the reports of each run are built from that run's own arguments,
\* prompt, version and backend result, and the outcome of each run is the
\* outcome it has alone with the same returns of its collaborators.
C13_ConcurrentRunsIndependent ==
  \A r \in Runs :
    /\ outcome[r] = AloneOutcome(r)
    /\ Len(calls[r]) >= 1 => calls[r][1].args = <<frame[r].promptName>>
    /\ Len(calls[r]) >= 2 => calls[r][2].args = <<OwnPrompt(r).id>>
    /\ Len(calls[r]) >= 3 => calls[r][3].args = <<AloneRequest(r)>>
    /\ Len(calls[r]) >= 4 =>
         /\ Timeless(Report(calls[r][4])) =
              AloneReport(r, BackendResult(r).status, TRUE)
         /\ Tail(calls[r][4].args) = AutoParseJSONArg(frame[r].options)
    /\ Len(calls[r]) >= 5 =>
         calls[r][5].args = <<AloneReport(r, "Error", FALSE)
                                @@ [duration |-> Report(calls[r][4]).duration]>>

\* Both runs are past execute, with different arguments, prompts, versions
\* and outcomes.
C13_Witness ==
  /\ RunSettled("r1") /\ RunSettled("r2")
  /\ Len(calls["r1"]) >= 4 /\ Len(calls["r2"]) >= 4
  /\ frame["r1"].promptName # frame["r2"].promptName
  /\ frame["r1"].variables # frame["r2"].variables
  /\ OwnPrompt("r1") # OwnPrompt("r2")
  /\ OwnVersion("r1") # OwnVersion("r2")
  /\ outcome["r1"].kind # outcome["r2"].kind

\* C14: nothing is cached across runs: every report carries the sha, the
\* content and the settings of the version that the getDeployedPromptVersion
\* call of its own run returned, and the id that the findPrompt call of its
\* own run returned, also when another run of the same prompt name resolved
\* another version; the request to execute is built from that version too.
C14_NoCachingAcrossRuns ==
  \A r \in Runs :
    /\ \A i \in DOMAIN ReportCalls(r) :
         LET report == Report(ReportCalls(r)[i]) IN
         /\ report.promptVersionSha = OwnVersion(r).sha
         /\ report.content = OwnVersion(r).content
         /\ report.settings = OwnVersion(r).settings
         /\ report.prompt = [connect |-> [id |-> OwnPrompt(r).id]]
    /\ \A i \in DOMAIN CallsOf(r, "execute") :
         CallsOf(r, "execute")[i].args[1].settings.model
           = OwnVersion(r).settings.model

C14_Witness ==
  /\ ReportCalls("r1") # <<>> /\ ReportCalls("r2") # <<>>
  /\ frame["r1"].promptName = frame["r2"].promptName
  /\ OwnPrompt("r1") = OwnPrompt("r2")
  /\ OwnVersion("r1").sha # OwnVersion("r2").sha
  /\ Report(ReportCalls("r1")[1]).promptVersionSha = OwnVersion("r1").sha
  /\ Report(ReportCalls("r2")[1]).promptVersionSha = OwnVersion("r2").sha

\* C15: when the first report submission fails, run() settles only after
\* the second submission has been made and has completed.
C15_SettlesAfterFallbackCompletes ==
  \A r \in Runs :
    (/\ RunSettled(r)
     /\ ReportCalls(r) # <<>>
     /\ Failed(ReportCalls(r)[1])) =>
      /\ Len(ReportCalls(r)) = 2
      /\ ReportCalls(r)[2].ret.kind # "pending"

\* C16: the request handed to execute, once per run, has the content
\* interpolated once from the version's template and the caller's variables,
\* of the version's settings exactly model and modelSettings, and the
\* caller's options; the reports carry that interpolated content, the
\* template and the whole settings.
C16_RequestAndReportContent ==
  \A r \in Runs :
    Len(calls[r]) >= 3 =>
      LET request == calls[r][3].args[1]
          version == OwnVersion(r)
      IN
      /\ Len(CallsOf(r, "execute")) = 1
      /\ Len(calls[r][3].args) = 1
      /\ request.content =
           interpolateVariables(version.content, frame[r].variables)
      /\ DOMAIN request.settings = {"model", "modelSettings"}
      /\ request.settings.model = version.settings.model
      /\ request.settings.modelSettings = version.settings.modelSettings
      /\ request.options = frame[r].options
      /\ \A i \in DOMAIN ReportCalls(r) :
           /\ Report(ReportCalls(r)[i]).interpolatedContent = request.content
           /\ Report(ReportCalls(r)[i]).content = version.content
           /\ Report(ReportCalls(r)[i]).settings = version.settings

\* A variable whose value is a placeholder: one interpolation leaves it.
C16_Witness ==
  \E r \in Runs :
    /\ ReportCalls(r) # <<>>
    /\ frame[r].variables = [name |-> "{title}", title |-> "Dr"]
    /\ "autoParseJSON" \in DOMAIN frame[r].options
    /\ calls[r][3].args[1].content = <<"Hello, ", "{title}", "!">>
    /\ Report(ReportCalls(r)[1]).content = <<"Hello, ", "{name}", "!">>
    /\ "provider" \in DOMAIN Report(ReportCalls(r)[1]).settings

\* C17: a fallback report equals the first report of its run in every field
\* but status and result: its status is "Error", it has no result field and
\* it is submitted without the autoParseJSON argument; the duration of both
\* is the one measured around the execute call, a natural number.
SharedFields ==
  {"prompt", "promptVersionSha", "content", "variables",
   "interpolatedContent", "settings", "promptTokens", "completionTokens",
   "totalTokens", "promptCost", "completionCost", "totalCost", "duration"}

C17_FallbackEqualsFirstReport ==
  \A r \in Runs :
    /\ \A i \in DOMAIN ReportCalls(r) :
         /\ Report(ReportCalls(r)[i]).duration \in Nat
         /\ Report(ReportCalls(r)[i]).duration =
              Ceil(frame[r].end - frame[r].start)
    /\ Len(ReportCalls(r)) = 2 =>
         LET first == Report(ReportCalls(r)[1])
             fallback == Report(ReportCalls(r)[2])
         IN
         /\ \A k \in SharedFields : fallback[k] = first[k]
         /\ DOMAIN fallback = SharedFields \cup {"status"}
         /\ DOMAIN first \ {"result"} = DOMAIN fallback
         /\ fallback.status = "Error"
         /\ Len(ReportCalls(r)[2].args) = 1

C17_Witness ==
  \E r \in Runs :
    /\ Len(ReportCalls(r)) = 2
    /\ Report(ReportCalls(r)[1]).status = "Success"
    /\ "result" \in DOMAIN Report(ReportCalls(r)[1])
    /\ Len(ReportCalls(r)[1].args) = 2
    /\ frame[r].start = 0 /\ frame[r].end = 1
    /\ Report(ReportCalls(r)[2]).duration = 1

\* C18: provided every collaborator call settles in the end, every run()
\* that was called settles in the end, and it settles once: a settled
\* outcome never changes.
C18_EveryRunSettlesOnce ==
  /\ \A r \in Runs : (pc[r] # "idle") ~> RunSettled(r)
  /\ [][\A r \in Runs : RunSettled(r) => outcome'[r] = outcome[r]]_vars

C18_Witness ==
  /\ outcome["r1"].kind = "fulfilled"
  /\ outcome["r2"].kind = "rejected"
  /\ Len(ReportCalls("r2")) = 2
  /\ ReportCalls("r2")[2].ret.kind = "rejected"
====
